---- MODULE Spec2Model ----
(***************************************************************************)
(* Model of the COA AI Template backend: the retry decorator with_retry    *)
(* and the AI operations built on it (backend/app/ai_service.py), and the  *)
(* Azure OpenAI health probe (backend/app/openai_provider.py, main.py).    *)
(*                                                                         *)
(* One step of a call is everything the coroutine does between two         *)
(* suspension points (an awaited provider request, an awaited              *)
(* asyncio.sleep), which is how the asyncio event loop runs it.            *)
(***************************************************************************)
EXTENDS Integers, Sequences, FiniteSets, TLC

\* ---------------------------------------------------------------- bounds
\* Largest max_retries given to with_retry for the generic wrapped function.
MaxN == 3
\* Longest provider chat content, in tokens.
MaxText == 3
\* Largest number of texts given to generate_embeddings_batch.
MaxBatch == 2
\* Most GET /api/v1/health requests followed.
MaxServed == 2
\* Largest max_retries of the calls run concurrently.
MaxConcN == 2

\* ------------------------------------------------------ program constants
MAX_RETRIES == 3
INITIAL_BACKOFF == 1
BACKOFF_MULTIPLIER == 2

\* ---------------------------------------------------------------- values
RECURSIVE Pow(_, _)
\* BACKOFF_MULTIPLIER ** attempt
Pow(b, n) == IF n = 0 THEN 1 ELSE b * Pow(b, n - 1)

\* The tokens a provider chat content is made of.
Tokens == {"[", "]", "{", "}", "1", ","}

RECURSIVE SeqsUpTo(_, _)
SeqsUpTo(S, n) ==
    IF n = 0 THEN {<<>>}
    ELSE LET shorter == SeqsUpTo(S, n - 1)
         IN  shorter \cup {Append(t, x) : t \in {u \in shorter : Len(u) = n - 1}, x \in S}

\* Every chat content the provider may return (message.content when present).
Texts == SeqsUpTo(Tokens, MaxText)

\* message.content of a chat response: a string, or None.
Contents == {[present |-> FALSE, text |-> <<>>]}
            \cup {[present |-> TRUE, text |-> t] : t \in Texts}

\* Embedding vectors a provider may return (floats, modelled as integers).
Vectors == {<<>>, <<1>>, <<2>>}

\* Return values of the generic wrapped function.
FuncValues == {"v1", "v2"}

\* ------------------------------------------------------------ exceptions
\* An exception: its class, the HTTP status it carries (0: none), the number of
\* the provider request that raised it (0: not raised by a request) and the
\* parts its message is built from.
Exc(cls, status, req, msg) == [cls |-> cls, status |-> status, req |-> req, msg |-> msg]

\* last_exception = None
NoExc == Exc("None", 0, 0, <<>>)

\* The failures one provider request can raise: openai maps status 429 to
\* RateLimitError and every other non-2xx status to an APIStatusError.
ProviderErrors(req) ==
    {Exc("RateLimitError", 429, req, <<>>),
     Exc("APITimeoutError", 0, req, <<>>),
     Exc("APIConnectionError", 0, req, <<>>),
     Exc("Exception", 0, req, <<>>)}
    \cup {Exc("APIStatusError", st, req, <<>>) : st \in {400, 404, 499, 500, 599}}

\* The openai class hierarchy the except clauses match against.
Bases(cls) ==
    CASE cls = "RateLimitError"     -> {"RateLimitError", "APIStatusError", "APIError"}
      [] cls = "APITimeoutError"    -> {"APITimeoutError", "APIConnectionError", "APIError"}
      [] cls = "APIConnectionError" -> {"APIConnectionError", "APIError"}
      [] cls = "APIStatusError"     -> {"APIStatusError", "APIError"}
      [] OTHER                      -> {cls}

IsInstance(e, cls) == cls \in Bases(e.cls)

\* -------------------------------------------------------------- outcomes
\* What a function call ends with: a returned value or a raised exception.
NoVal == <<>>
Return(v) == [kind |-> "return", val |-> v, exc |-> NoExc]
Raise(e) == [kind |-> "raise", val |-> NoVal, exc |-> e]
Pending == [kind |-> "none", val |-> NoVal, exc |-> NoExc]

\* ------------------------------------------------------------------ JSON
\* A parsed JSON value: a number, a list of values or an (empty) object.
JNum(n) == [t |-> "num", n |-> n, kids |-> <<>>]
JList(items) == [t |-> "list", n |-> 0, kids |-> items]
JDict == [t |-> "dict", n |-> 0, kids |-> <<>>]

POk(v, next) == [ok |-> TRUE, val |-> v, next |-> next, msg |-> "", pos |-> 0]
PErr(msg, pos) == [ok |-> FALSE, val |-> JDict, next |-> 0, msg |-> msg, pos |-> pos]

RECURSIVE ParseValue(_, _), ParseItems(_, _, _)
\* json's scanner: the value that starts at token i of text, or a JSONDecodeError.
ParseValue(text, i) ==
    IF i > Len(text) THEN PErr("Expecting value", i - 1)
    ELSE CASE text[i] = "1" -> POk(JNum(1), i + 1)
           [] text[i] = "[" ->
                IF i + 1 <= Len(text) /\ text[i + 1] = "]"
                THEN POk(JList(<<>>), i + 2)
                ELSE ParseItems(text, i + 1, <<>>)
           [] text[i] = "{" ->
                IF i + 1 <= Len(text) /\ text[i + 1] = "}"
                THEN POk(JDict, i + 2)
                ELSE PErr("Expecting property name enclosed in double quotes", i)
           [] OTHER -> PErr("Expecting value", i - 1)

\* The items of a list, after its "[" and the items already in acc.
ParseItems(text, i, acc) ==
    LET r == ParseValue(text, i)
    IN  IF ~r.ok THEN r
        ELSE IF r.next > Len(text) THEN PErr("Expecting ',' delimiter", r.next - 1)
        ELSE IF text[r.next] = "]" THEN POk(JList(Append(acc, r.val)), r.next + 1)
        ELSE IF text[r.next] = "," THEN ParseItems(text, r.next + 1, Append(acc, r.val))
        ELSE PErr("Expecting ',' delimiter", r.next - 1)

\* json.loads(content): one value and nothing after it, else a JSONDecodeError.
JsonLoads(text) ==
    LET r == ParseValue(text, 1)
    IN  IF ~r.ok THEN r
        ELSE IF r.next <= Len(text) THEN PErr("Extra data", r.next - 1)
        ELSE r

\* ------------------------------------------------------------------- log
\* A logger call: its level, what it reports, the function it names, the
\* attempt number (or status, or position) and wait time it states and the raw
\* text it quotes. The wording that tells the retrying clauses apart ("Rate
\* limited", "Timeout", ...) is not recorded.
LogEvent(level, event, fn, attempt, wait, text) ==
    [level |-> level, event |-> event, fn |-> fn, attempt |-> attempt,
     wait |-> wait, text |-> text]


\* Failure classes of the error taxonomy: RateLimited, Timeout,
\* ConnectionFailure and ServerError (5xx) are transient, ClientError (4xx other
\* than 429) is permanent. Read only by the history flag allTransient and by the
\* properties, never by the retry logic.
TransientFailure(e) ==
    \/ e.cls \in {"RateLimitError", "APITimeoutError", "APIConnectionError"}
    \/ e.cls = "APIStatusError" /\ 500 <= e.status /\ e.status <= 599

PermanentFailure(e) ==
    e.cls = "APIStatusError" /\ 400 <= e.status /\ e.status <= 499 /\ e.status # 429

\* ----------------------------------------------------------------- state
\* calls: the AI operation calls in flight, by call id. Of each call:
\*   op        the operation called, n the number of input texts
\*   pc        "start", "await" (a provider request is in flight), "sleep"
\*             (in asyncio.sleep) or "done"
\*   frames    the stack of with_retry wrapper activations, innermost last
\*   reqs      provider requests issued        slept  the wait times slept
\*   log       the logger's events             result what the call ended with
\*   lastResp  the provider's last response
\*   allTransient  whether every provider response so far was a transient failure
\*   cancel    where the caller cancelled the call ("none": it did not), and the
\*             requests issued and sleeps begun by then
\* probe: the health probe (validate_azure_connection behind ai_health_check).
\* app: the server process: its environment, whether it serves requests and
\*   what importing app.openai_provider has built.
\* stub: the provider. <<>> is the live provider, which may answer a request in
\*   any way; a non-empty script is a deterministic stub that answers the k-th
\*   request of every call with its k-th entry.
VARIABLES calls, probe, app, stub

vars == <<calls, probe, app, stub>>

Ops == {"generate_embedding", "generate_embeddings_batch", "chat_completion",
        "chat_completion_json", "quick_analysis", "func"}

\* Mutant: the attempt counter lives in the decorator's closure and is not
\* reset, so a call starts where the calls before it ended.
NewFrame_Carried(fn, max_retries) ==
    [fn |-> fn, max_retries |-> max_retries,
     attempt |-> Cardinality({c \in DOMAIN calls : calls[c].pc = "done"}),
     last_exception |-> NoExc, backoff |-> INITIAL_BACKOFF, hist |-> <<>>]

\* The state of wrapper() on entry: last_exception = None, backoff = INITIAL_BACKOFF.
NewFrame(fn, max_retries) ==
    [fn |-> fn, max_retries |-> max_retries, attempt |-> 0,
     last_exception |-> NoExc, backoff |-> INITIAL_BACKOFF, hist |-> <<>>]

\* No response yet. A response names the request (req) it answers.
NoResp == [ok |-> FALSE, payload |-> <<>>, exc |-> NoExc, req |-> 0]

NewCall(op, n, max_retries) ==
    [op |-> op, n |-> n, max_retries |-> max_retries, pc |-> "start",
     frames |-> <<>>, reqs |-> 0, slept |-> <<>>, log |-> <<>>,
     result |-> Pending, lastResp |-> NoResp, allTransient |-> TRUE,
     cancel |-> [at |-> "none", reqs |-> 0, slept |-> 0]]

Top(s) == s.frames[Len(s.frames)]

\* ------------------------------------------------------------ with_retry
\* Mutant: the attempt counter is module state shared by every call, so the
\* exponent is the number of sleeps of all calls so far.
WaitTime_Shared(f) ==
    f.backoff * Pow(BACKOFF_MULTIPLIER,
                    Cardinality(UNION {{c} \X (1..Len(calls[c].slept)) : c \in DOMAIN calls}))

\* wait_time = backoff * (BACKOFF_MULTIPLIER ** attempt)
WaitTime(f) == f.backoff * Pow(BACKOFF_MULTIPLIER, f.attempt)

\* Mutant: the loop has no bound, `while True`.
LoopContinues_Unbounded(f) == TRUE

\* Mutant: the loop bound off by one, range(max_retries + 1).
LoopContinues_OffByOne(f) == f.attempt <= f.max_retries

\* for attempt in range(max_retries): whether the loop has an iteration left.
LoopContinues(f) == f.attempt < f.max_retries

\* Mutant: the APIStatusError clause written first, so that it also catches
\* RateLimitError, its subclass.
ExceptClause_StatusFirst(e) ==
    IF IsInstance(e, "APIStatusError") THEN "APIStatusError"
    ELSE IF IsInstance(e, "RateLimitError") THEN "RateLimitError"
    ELSE IF IsInstance(e, "APITimeoutError") THEN "APITimeoutError"
    ELSE IF IsInstance(e, "APIConnectionError") THEN "APIConnectionError"
    ELSE "uncaught"

\* Mutant: a last clause `except Exception` that retries whatever is left.
ExceptClause_CatchAll(e) ==
    IF IsInstance(e, "RateLimitError") THEN "RateLimitError"
    ELSE IF IsInstance(e, "APITimeoutError") THEN "APITimeoutError"
    ELSE IF IsInstance(e, "APIConnectionError") THEN "APIConnectionError"
    ELSE IF IsInstance(e, "APIStatusError") THEN "APIStatusError"
    ELSE "Exception"

\* The except clause of wrapper() that catches e, in the order they are written.
ExceptClause(e) ==
    IF IsInstance(e, "RateLimitError") THEN "RateLimitError"
    ELSE IF IsInstance(e, "APITimeoutError") THEN "APITimeoutError"
    ELSE IF IsInstance(e, "APIConnectionError") THEN "APIConnectionError"
    ELSE IF IsInstance(e, "APIStatusError") THEN "APIStatusError"
    ELSE "uncaught"

\* Mutant: the lower bound exclusive, 400 < e.status_code < 500.
IsClientStatus_Exclusive(e) == 400 < e.status /\ e.status < 500

\* if 400 <= e.status_code < 500
IsClientStatus(e) == 400 <= e.status /\ e.status < 500

\* Mutant: only a 4xx status is re-raised at once; whatever else the wrapped
\* function raises is backed off and retried.
RaisesAtOnce_ClientOnly(e) ==
    ExceptClause(e) = "APIStatusError" /\ IsClientStatus(e)

\* Whether wrapper() re-raises e at once instead of backing off.
RaisesAtOnce(e) ==
    \/ ExceptClause(e) = "uncaught"
    \/ ExceptClause(e) = "APIStatusError" /\ IsClientStatus(e)

\* raise last_exception: raising None is a TypeError.
ExhaustedRaise(f) ==
    IF f.last_exception = NoExc THEN Exc("TypeError", 0, 0, <<>>) ELSE f.last_exception

\* A retrying except clause: remember e, log the warning, await asyncio.sleep.
BackOff(s, e) ==
    LET f == Top(s)
        w == WaitTime(f)
    IN  [s EXCEPT !.frames[Len(s.frames)].last_exception = e,
                  !.log = Append(@, LogEvent("warning", "retrying", f.fn,
                                             f.attempt + 1, w, <<>>)),
                  !.slept = Append(@, w),
                  !.pc = "sleep"]

\* ---------------------------------------------------- the wrapped bodies
\* Mutant: the list is built back to front.
BatchEmbeddings_Reversed(data) ==
    [i \in 1..Len(data) |-> data[Len(data) + 1 - i].embedding]

\* [item.embedding for item in response.data]
BatchEmbeddings(data) == [i \in 1..Len(data) |-> data[i].embedding]

\* The body of the wrapped function fn after its provider request resolved.
FuncBody(fn, resp) ==
    IF ~resp.ok THEN Raise(resp.exc)
    ELSE CASE fn = "generate_embedding" ->
                \* response.data[0].embedding
                IF Len(resp.payload) = 0 THEN Raise(Exc("IndexError", 0, 0, <<>>))
                ELSE Return(resp.payload[1].embedding)
           [] fn = "generate_embeddings_batch" ->
                Return(BatchEmbeddings(resp.payload))
           [] fn = "chat_completion" ->
                \* response.choices[0].message.content or ""
                Return(IF resp.payload.present /\ resp.payload.text # <<>>
                       THEN resp.payload.text ELSE <<>>)
           [] OTHER -> Return(resp.payload)

Part(k, str, n, text) == [k |-> k, s |-> str, n |-> n, t |-> text]

\* ValueError(f"Invalid JSON response from model: {e}"), e the JSONDecodeError
\* whose text is its message and position.
InvalidJsonError(r, content) ==
    Exc("ValueError", 0, 0,
        <<Part("lit", "Invalid JSON response from model: ", 0, <<>>),
          Part("lit", r.msg, 0, <<>>),
          Part("pos", "", r.pos, <<>>)>>)

\* Mutant: the raw content is not logged.
ParseFailureLog_NoRaw(r, content) ==
    <<LogEvent("error", "Failed to parse JSON response", "chat_completion_json",
               r.pos, 0, <<>>)>>

\* The two logger.error calls of chat_completion_json's except clause.
ParseFailureLog(r, content) ==
    <<LogEvent("error", "Failed to parse JSON response", "chat_completion_json",
               r.pos, 0, <<>>),
      LogEvent("error", "Raw content", "chat_completion_json", 0, 0, content)>>

\* The value chat_completion_json returns for a content json.loads accepts.
JsonResult(r, content) == Return(r.val)

\* Mutant: a content that does not parse yields an empty object.
JsonBody_DefaultOnFailure(s, o) ==
    IF o.kind = "raise" THEN [s |-> s, o |-> o]
    ELSE LET r == JsonLoads(o.val)
         IN  [s |-> s, o |-> IF r.ok THEN JsonResult(r, o.val) ELSE Return(JDict)]

\* chat_completion_json after `await chat_completion(...)` ended with o: the
\* state (its log) and what the body ends with.
JsonBody(s, o) ==
    IF o.kind = "raise" THEN [s |-> s, o |-> o]
    ELSE LET r == JsonLoads(o.val)
         IN  IF r.ok THEN [s |-> s, o |-> JsonResult(r, o.val)]
             ELSE [s |-> [s EXCEPT !.log = @ \o ParseFailureLog(r, o.val)],
                   o |-> Raise(InvalidJsonError(r, o.val))]

RECURSIVE LoopHead(_), Handle(_, _), Propagate(_, _)
\* The head of the retry loop: the next invocation of the wrapped function, or,
\* the loop being over, the final logger.error and raise last_exception.
LoopHead(s) ==
    LET f == Top(s)
    IN  IF LoopContinues(f)
        THEN IF f.fn = "chat_completion_json"
             THEN \* its body calls chat_completion, itself wrapped by with_retry()
                  LoopHead([s EXCEPT !.frames = Append(@, NewFrame("chat_completion", MAX_RETRIES))])
             ELSE \* the body issues its provider request and awaits the response
                  [s EXCEPT !.reqs = @ + 1, !.pc = "await"]
        ELSE Propagate([s EXCEPT !.log = Append(@, LogEvent("error", "retries exhausted",
                                                            f.fn, f.max_retries, 0, <<>>))],
                       Raise(ExhaustedRaise(f)))

\* Mutant: the result is awaited but not returned, so the loop goes on.
OnReturn_Dropped(s, o) ==
    LoopHead([s EXCEPT !.frames[Len(s.frames)].attempt = @ + 1])

\* return await func(*args, **kwargs): the wrapper returns what func returned.
OnReturn(s, o) == Propagate(s, o)

\* The try/except of wrapper() around `return await func(...)`, func having
\* ended with o.
Handle(s, o) ==
    LET s1 == [s EXCEPT !.frames[Len(s.frames)].hist =
                            Append(@, IF o.kind = "raise" THEN o.exc
                                      ELSE Exc("OK", 0, s.reqs, <<>>))]
        f == Top(s1)
    IN  IF o.kind = "return" THEN OnReturn(s1, o)
        ELSE IF RaisesAtOnce(o.exc)
             THEN IF ExceptClause(o.exc) = "APIStatusError"
                  THEN Propagate([s1 EXCEPT !.log = Append(@, LogEvent("error", "API error", f.fn,
                                                                    o.exc.status, 0, <<>>))], o)
                  ELSE Propagate(s1, o)
             ELSE BackOff(s1, o.exc)

\* wrapper() of the innermost frame ends with o: the call is over, or the
\* calling body (chat_completion_json) goes on and its own wrapper handles
\* what the body ends with.
Propagate(s, o) ==
    IF Len(s.frames) = 1 THEN [s EXCEPT !.pc = "done", !.result = o]
    ELSE LET b == JsonBody([s EXCEPT !.frames = SubSeq(@, 1, Len(@) - 1)], o)
         IN  Handle(b.s, b.o)

\* ------------------------------------------------------ provider responses
EmbeddingData(n) ==
    {[i \in 1..n |-> [index |-> i - 1, embedding |-> vs[i]]] : vs \in [1..n -> Vectors]}

Success(payload, req) == [ok |-> TRUE, payload |-> payload, exc |-> NoExc, req |-> req]

\* What the request issued by fn (its req-th of the call) can resolve to.
Responses(fn, n, req) ==
    {[ok |-> FALSE, payload |-> <<>>, exc |-> e, req |-> req] : e \in ProviderErrors(req)}
    \cup CASE fn = "chat_completion" -> {Success(c, req) : c \in Contents}
           [] fn \in {"generate_embedding", "generate_embeddings_batch"} ->
                {Success(d, req) : d \in EmbeddingData(n)}
           [] OTHER -> {Success(v, req) : v \in FuncValues}

\* What the provider (live, or the stub) can answer the request in flight of
\* call s with.
Answers(s) ==
    IF stub = <<>> THEN Responses(Top(s).fn, s.n, s.reqs) ELSE {stub[s.reqs]}

\* --------------------------------------------------------------- actions
\* The first frame of a call of op.
EntryFrame(s) ==
    CASE s.op = "quick_analysis" -> NewFrame("chat_completion", MAX_RETRIES)
      [] s.op = "func" -> NewFrame("func", s.max_retries)
      [] OTHER -> NewFrame(s.op, MAX_RETRIES)

\* validate_azure_connection calls the synchronous clients: while one of its
\* requests is in flight the event loop runs nothing else.
LoopFree == probe.pc \notin {"chat", "embed"}

\* The caller awaits the operation: the wrapper runs up to its first await.
Start(c) ==
    /\ LoopFree
    /\ calls[c].pc = "start"
    /\ calls' = [calls EXCEPT ![c] = LoopHead([calls[c] EXCEPT !.frames = <<EntryFrame(calls[c])>>])]
    /\ UNCHANGED <<probe, app, stub>>

\* The provider request of call c resolves; the call runs up to its next await.
Respond(c) ==
    /\ LoopFree
    /\ calls[c].pc = "await"
    /\ \E resp \in Answers(calls[c]) :
         calls' = [calls EXCEPT ![c] =
                     Handle([calls[c] EXCEPT !.lastResp = resp,
                                             !.allTransient = @ /\ ~resp.ok /\ TransientFailure(resp.exc)],
                            FuncBody(Top(calls[c]).fn, resp))]
    /\ UNCHANGED <<probe, app, stub>>

\* asyncio.sleep(wait_time) is over: the loop goes to its next iteration.
Wake(c) ==
    /\ LoopFree
    /\ calls[c].pc = "sleep"
    /\ calls' = [calls EXCEPT ![c] =
                   LoopHead([calls[c] EXCEPT !.frames[Len(calls[c].frames)].attempt = @ + 1])]
    /\ UNCHANGED <<probe, app, stub>>

\* ---------------------------------------------------------- cancellation
\* asyncio.CancelledError, a BaseException: no except clause of wrapper() or
\* of chat_completion_json names a class it derives from.
CancelledError == Exc("CancelledError", 0, 0, <<>>)

\* Mutant: the backoff sleep is shielded from cancellation
\* (try: await asyncio.sleep(..) except BaseException: pass), the loop goes on.
CancelAt_Swallowed(s) ==
    IF s.pc = "await" THEN Handle(s, Raise(CancelledError))
    ELSE LoopHead([s EXCEPT !.frames[Len(s.frames)].attempt = @ + 1])

\* The event loop throws CancelledError into the suspended call. At
\* `await func(...)` it is raised inside the try of wrapper(); at
\* `await asyncio.sleep(wait_time)` it is raised inside an except clause and
\* so leaves that wrapper unhandled.
CancelAt(s) ==
    IF s.pc = "await" THEN Handle(s, Raise(CancelledError))
    ELSE Propagate(s, Raise(CancelledError))

\* The caller cancels call c (task.cancel()) while it is suspended.
Cancel(c) ==
    /\ LoopFree
    /\ calls[c].pc \in {"await", "sleep"}
    /\ calls' = [calls EXCEPT ![c] =
                   [CancelAt(calls[c]) EXCEPT !.cancel = [at |-> calls[c].pc,
                                                          reqs |-> calls[c].reqs,
                                                          slept |-> Len(calls[c].slept)]]]
    /\ UNCHANGED <<probe, app, stub>>

\* ------------------------------------------------- provider configuration
\* os.getenv(name): the variable is unset (None), empty or set.
EnvValues == {"unset", "empty", "set"}

\* _get_required_env: `if not value: raise ValueError`.
HasRequired(v) == v = "set"

\* AzureOpenAIConfig() succeeds: both required variables are there.
ConfigBuilds(env) == HasRequired(env.endpoint) /\ HasRequired(env.key)

\* The process with environment env before uvicorn runs it. provider is
\* "unloaded" (app.openai_provider not imported), "loaded" or "failed" (its
\* import raised); config, mapping and clients are what the import built.
NewApp(env) ==
    [state |-> "down", env |-> env, provider |-> "unloaded", config |-> FALSE,
     mapping |-> FALSE, clients |-> 0, served |-> 0, log |-> <<>>]

\* Importing app.openai_provider: the module builds _config, the deployment
\* mapping and the four clients, or logs the ValueError as critical and
\* re-raises it, having built nothing.
LoadProvider(a) ==
    IF ConfigBuilds(a.env)
    THEN [a EXCEPT !.provider = "loaded", !.config = TRUE, !.mapping = TRUE,
                   !.clients = 4,
                   !.log = Append(@, LogEvent("info", "Azure OpenAI clients initialized",
                                              "openai_provider", 0, 0, <<>>))]
    ELSE [a EXCEPT !.provider = "failed",
                   !.log = Append(@, LogEvent("critical", "Failed to initialize Azure OpenAI",
                                              "openai_provider", 0, 0, <<>>))]

\* A serving process whose provider module is imported.
RunningApp ==
    [LoadProvider(NewApp([endpoint |-> "set", key |-> "set"])) EXCEPT !.state = "serving"]

\* ----------------------------------------------------------- health probe
\* _config.endpoint
Endpoint == "https://example.openai.azure.com"

NoRecord == [status |-> "none", chat_completion |-> "none", embeddings |-> "none",
             endpoint |-> "none"]

\* The probe before GET /api/v1/health/ai: no request issued.
\*   pc      "idle", "chat" / "embed" (that request is in flight) or "done"
\*   chat, embed   the responses received      chatReqs, embedReqs  requests issued
\*   result  what validate_azure_connection ended with
\*   http    the status code and body ai_health_check answers with
\*   slept   the wait times slept (the probe has no sleep)
IdleProbe ==
    [pc |-> "idle", chat |-> NoResp, embed |-> NoResp, chatReqs |-> 0, embedReqs |-> 0,
     chat_ok |-> FALSE, result |-> Pending, http |-> [code |-> 0, body |-> NoRecord],
     log |-> <<>>, slept |-> <<>>]

\* Mutant: the chat check asks for a non-empty content.
ChatOk_NonEmpty(resp) == resp.payload.present /\ resp.payload.text # <<>>

\* chat_ok = response.choices[0].message.content is not None
ChatOk(resp) == resp.payload.present

\* embedding_ok = len(embed_response.data[0].embedding) > 0
EmbeddingOk(resp) == Len(resp.payload[1].embedding) > 0

\* The dict validate_azure_connection returns.
HealthRecord(chat_ok, embedding_ok) ==
    [status |-> IF chat_ok /\ embedding_ok THEN "healthy" ELSE "degraded",
     chat_completion |-> IF chat_ok THEN "ok" ELSE "failed",
     embeddings |-> IF embedding_ok THEN "ok" ELSE "failed",
     endpoint |-> Endpoint]

\* Mutant: the exception is swallowed and a degraded record returned.
ProbeFailed_Degraded(p, e) ==
    [p EXCEPT !.pc = "done", !.result = Return(HealthRecord(FALSE, FALSE)),
              !.http = [code |-> 200, body |-> HealthRecord(FALSE, FALSE)]]

\* except Exception in validate_azure_connection (log, re-raise) and then in
\* ai_health_check (log, HTTPException 503).
ProbeFailed(p, e) ==
    [p EXCEPT !.pc = "done", !.result = Raise(e),
              !.http = [code |-> 503, body |-> NoRecord],
              !.log = @ \o <<LogEvent("error", "Azure OpenAI validation failed",
                                      "validate_azure_connection", 0, 0, <<>>),
                             LogEvent("error", "AI health check failed",
                                      "ai_health_check", 0, 0, <<>>)>>]

\* The import in ai_health_check raised e: except Exception logs it and
\* answers 503.
ImportFailed(p, e) ==
    [p EXCEPT !.pc = "done", !.result = Raise(e),
              !.http = [code |-> 503, body |-> NoRecord],
              !.log = Append(@, LogEvent("error", "AI health check failed",
                                         "ai_health_check", 0, 0, <<>>))]

\* GET /api/v1/health/ai: ai_health_check imports app.openai_provider (run on
\* the first import, and again after an import that raised) and awaits
\* validate_azure_connection, which issues its chat request on the synchronous
\* client.
ProbeStart ==
    /\ app.state = "serving"
    /\ probe.pc = "idle"
    /\ LET a == IF app.provider = "loaded" THEN app ELSE LoadProvider(app)
       IN  /\ app' = a
           /\ probe' = IF a.provider = "loaded"
                       THEN [probe EXCEPT !.pc = "chat", !.chatReqs = @ + 1]
                       ELSE ImportFailed(probe, Exc("ValueError", 0, 0, <<>>))
    /\ UNCHANGED <<calls, stub>>

\* The chat request resolves: chat_ok is computed and the embedding request
\* issued, or the exception leaves the probe.
ProbeChat ==
    /\ probe.pc = "chat"
    /\ \E resp \in Responses("chat_completion", 1, probe.chatReqs) :
         probe' = IF resp.ok
                  THEN [probe EXCEPT !.chat = resp, !.chat_ok = ChatOk(resp),
                                     !.pc = "embed", !.embedReqs = @ + 1]
                  ELSE ProbeFailed([probe EXCEPT !.chat = resp], resp.exc)
    /\ UNCHANGED <<calls, app, stub>>

\* The embedding request resolves: the record is returned and answered with
\* 200, or the exception leaves the probe.
ProbeEmbed ==
    /\ probe.pc = "embed"
    /\ \E resp \in Responses("generate_embedding", 1, probe.embedReqs) :
         probe' = IF resp.ok
                  THEN LET rec == HealthRecord(probe.chat_ok, EmbeddingOk(resp))
                       IN  [probe EXCEPT !.embed = resp, !.pc = "done",
                                         !.result = Return(rec),
                                         !.http = [code |-> 200, body |-> rec]]
                  ELSE ProbeFailed([probe EXCEPT !.embed = resp], resp.exc)
    /\ UNCHANGED <<calls, app, stub>>

\* The health probe alone, no AI operation call in flight.
InitProbe ==
    /\ calls = [c \in {} |-> NewCall("func", 1, 0)]
    /\ probe = IdleProbe
    /\ app = RunningApp
    /\ stub = <<>>

NextProbe == ProbeStart \/ ProbeChat \/ ProbeEmbed

SpecProbe == InitProbe /\ [][NextProbe]_vars

\* ---------------------------------------------------------------- startup
\* uvicorn runs app.main:app: main.py imports neither app.openai_provider nor
\* app.ai_service, so the application starts whatever the environment holds.
Boot ==
    /\ app.state = "down"
    /\ app' = [app EXCEPT !.state = "serving",
                          !.log = Append(@, LogEvent("info", "Starting COA AI Template API",
                                                     "lifespan", 0, 0, <<>>))]
    /\ UNCHANGED <<calls, probe, stub>>

\* GET /api/v1/health: answered 200 by health_check.
HealthCheck ==
    /\ app.state = "serving"
    /\ app.served < MaxServed
    /\ app' = [app EXCEPT !.served = @ + 1]
    /\ UNCHANGED <<calls, probe, stub>>

\* A process started under any environment, and the requests it then serves.
InitBoot ==
    /\ calls = [c \in {} |-> NewCall("func", 1, 0)]
    /\ probe = IdleProbe
    /\ \E e \in EnvValues, k \in EnvValues : app = NewApp([endpoint |-> e, key |-> k])
    /\ stub = <<>>

NextBoot == Boot \/ HealthCheck \/ ProbeStart \/ ProbeChat \/ ProbeEmbed

SpecBoot == InitBoot /\ [][NextBoot]_vars


\* One call of any operation; the generic function is wrapped with any
\* max_retries up to MaxN.
Init ==
    /\ \E op \in Ops, n \in 1..MaxBatch, m \in 0..MaxN :
         /\ op # "generate_embeddings_batch" => n = 1
         /\ op # "func" => m = MAX_RETRIES
         /\ calls = [c \in {1} |-> NewCall(op, n, m)]
    /\ probe = IdleProbe
    /\ app = RunningApp
    /\ stub = <<>>

Next == \E c \in DOMAIN calls : Start(c) \/ Respond(c) \/ Wake(c)

Spec == Init /\ [][Next]_vars

\* One call through a single with_retry wrapper (the generic function with any
\* max_retries from 0, or an embedding operation), run by an event loop that
\* lets the call take a step whenever it can: every provider request is
\* answered and every asyncio.sleep ends.
InitLive ==
    /\ \E op \in {"func", "generate_embedding", "generate_embeddings_batch"},
          n \in 1..MaxBatch, m \in 0..MaxN :
         /\ op # "generate_embeddings_batch" => n = 1
         /\ op # "func" => m = MAX_RETRIES
         /\ calls = [c \in {1} |-> NewCall(op, n, m)]
    /\ probe = IdleProbe
    /\ app = RunningApp
    /\ stub = <<>>

SpecLive == InitLive /\ [][Next]_vars /\ WF_vars(Next)

\* One call of any operation, which its caller may cancel at any suspension.
NextCancel == \E c \in DOMAIN calls : Start(c) \/ Respond(c) \/ Wake(c) \/ Cancel(c)

SpecCancel == Init /\ [][NextCancel]_vars

\* One call of the generic wrapped function in flight while the server answers
\* GET /api/v1/health/ai on the same event loop.
InitBlock ==
    /\ calls = [c \in {1} |-> NewCall("func", 1, 1)]
    /\ probe = IdleProbe
    /\ app = RunningApp
    /\ stub = <<>>

NextBlock ==
    \/ \E c \in DOMAIN calls : Start(c) \/ Respond(c) \/ Wake(c)
    \/ ProbeStart \/ ProbeChat \/ ProbeEmbed

SpecBlock == InitBlock /\ [][NextBlock]_vars

\* Two calls of the generic wrapped function awaited concurrently
\* (asyncio.gather), each with its own max_retries: their steps interleave in
\* any order.
InitConc ==
    /\ \E m1 \in 1..MaxConcN, m2 \in 1..MaxConcN :
         calls = [c \in {1, 2} |-> NewCall("func", 1, IF c = 1 THEN m1 ELSE m2)]
    /\ probe = IdleProbe
    /\ app = RunningApp
    /\ stub = <<>>

SpecConc == InitConc /\ [][Next]_vars

\* What a stub provider's k-th answer to a chat request can be: any failure, or
\* a completion with no content, an empty content or a one-token content.
StubAnswers(k) ==
    {r \in Responses("chat_completion", 1, k) : r.ok => Len(r.payload.text) <= 1}

\* The same chat_completion request made twice against a deterministic stub,
\* one call after the other or both at once.
InitRepeat ==
    /\ calls = [c \in {1, 2} |-> NewCall("chat_completion", 1, MAX_RETRIES)]
    /\ probe = IdleProbe
    /\ app = RunningApp
    /\ \E a1 \in StubAnswers(1), a2 \in StubAnswers(2), a3 \in StubAnswers(3) :
         stub = <<a1, a2, a3>>

SpecRepeat == InitRepeat /\ [][Next]_vars

\* ============================================================ properties
AllTransient(hist) == \A i \in 1..Len(hist) : TransientFailure(hist[i])

\* A call with one with_retry wrapper between the caller and the provider.
Single(s) == s.op # "chat_completion_json"

\* The first k backoff terms, initial_backoff * multiplier^i for i = 0..k-1.
BackoffTerms(k) == [i \in 1..k |-> INITIAL_BACKOFF * Pow(BACKOFF_MULTIPLIER, i - 1)]

\* C1: with max_attempts = N >= 1 and a wrapped operation that fails with a
\* transient classification on every invocation (in any mix), with_retry
\* invokes it exactly N times (never more, and N times once the call is over)
\* and then propagates the failure raised by the N-th invocation.
C1_ExactlyNAttempts ==
    \A c \in DOMAIN calls :
        LET s == calls[c]
            f == s.frames[1]
        IN  (s.pc # "start" /\ f.max_retries >= 1 /\ AllTransient(f.hist)) =>
               /\ Len(f.hist) <= f.max_retries
               /\ s.pc = "done" =>
                     /\ Len(f.hist) = f.max_retries
                     /\ s.result = Raise(f.hist[f.max_retries])
                     /\ Single(s) => s.reqs = f.max_retries /\ s.result.exc.req = f.max_retries

\* C1 witness: a call with max_retries = 3 over, after a rate limit, a 5xx and
\* a timeout, propagating the timeout.
C1_Witness ==
    \E c \in DOMAIN calls :
        LET s == calls[c]
        IN  /\ s.op = "func" /\ s.pc = "done" /\ s.max_retries = 3
            /\ Len(s.frames[1].hist) = 3
            /\ s.frames[1].hist[1].cls = "RateLimitError"
            /\ s.frames[1].hist[2].cls = "APIStatusError" /\ s.frames[1].hist[2].status = 500
            /\ s.frames[1].hist[3].cls = "APITimeoutError"
            /\ s.result = Raise(s.frames[1].hist[3])

\* C2: with max_attempts = N >= 1 and an operation that always fails
\* transiently, the wait times of one with_retry call are the first N-1 backoff
\* terms: nothing is slept after the last failed attempt.
C2_SleepsOnlyBetweenAttempts ==
    \A c \in DOMAIN calls :
        LET s == calls[c]
        IN  (s.pc = "done" /\ Single(s) /\ s.frames[1].max_retries >= 1
             /\ AllTransient(s.frames[1].hist)) =>
               s.slept = BackoffTerms(s.frames[1].max_retries - 1)

\* C3: when the wrapped operation fails with a permanent classification (4xx
\* other than 429) on any attempt, with_retry propagates that failure at once:
\* no further attempt, and no sleep for it (one sleep for each earlier failed
\* attempt only, so none at all when the first attempt fails permanently).
C3_PermanentPropagatesAtOnce ==
    \A c \in DOMAIN calls :
        LET s == calls[c]
        IN  (~s.lastResp.ok /\ PermanentFailure(s.lastResp.exc)) =>
               /\ s.pc = "done"
               /\ s.result = Raise(s.lastResp.exc)
               /\ s.result.exc.req = s.reqs
               /\ Single(s) => /\ Len(s.frames[1].hist) = s.reqs
                               /\ Len(s.slept) = s.reqs - 1

\* C3 witness: a 404 on the second attempt, after a timeout, and a 400 on a
\* first attempt.
C3_Witness ==
    \E c \in DOMAIN calls :
        LET s == calls[c]
        IN  /\ s.op = "func" /\ s.pc = "done" /\ s.max_retries = 3
            /\ s.lastResp.exc.cls = "APIStatusError" /\ s.lastResp.exc.status = 404
            /\ s.reqs = 2 /\ s.slept = <<1>>
            /\ s.frames[1].hist[1].cls = "APITimeoutError"

\* C4: a failure with status 429 is transient although 429 is a 4xx status:
\* with_retry backs off for it and retries within the same attempt budget, and
\* a call ends with it only when the budget is used up, never by the immediate
\* propagation of the other 4xx statuses.
C4_RateLimitIsTransient ==
    \A c \in DOMAIN calls :
        LET s == calls[c]
            f == Top(s)
        IN  (~s.lastResp.ok /\ s.lastResp.exc.status = 429) =>
               /\ s.pc \in {"sleep", "await", "done"}
               /\ s.pc = "sleep" =>
                     /\ f.last_exception = s.lastResp.exc
                     /\ f.attempt < f.max_retries
                     /\ s.slept[Len(s.slept)] = BackoffTerms(f.attempt + 1)[f.attempt + 1]
               /\ s.pc = "await" => s.reqs = s.lastResp.exc.req + 1
               /\ s.pc = "done" =>
                     /\ f.attempt = f.max_retries
                     /\ s.log[Len(s.log)].event = "retries exhausted"
               /\ Single(s) => Len(s.slept) = Len(s.frames[1].hist)

\* C4 witness: the request after a 429 is in flight, the backoff slept.
C4_Witness ==
    \E c \in DOMAIN calls :
        LET s == calls[c]
        IN  /\ s.op = "func" /\ s.pc = "await" /\ s.reqs = 2
            /\ s.lastResp.exc.status = 429 /\ s.slept = <<1>>

\* C5: if the wrapped operation fails transiently k-1 times and succeeds on
\* its k-th invocation (k <= N), with_retry invokes it exactly k times, returns
\* what the k-th invocation returned and neither invokes nor sleeps afterwards.
C5_SuccessOnKthAttempt ==
    \A c \in DOMAIN calls :
        LET s == calls[c]
            f == s.frames[1]
        IN  (s.lastResp.ok /\ Single(s)) =>
               /\ s.pc = "done"
               /\ s.result = FuncBody(f.fn, s.lastResp)
               /\ s.result.kind = "return"
               /\ Len(f.hist) = s.reqs /\ s.reqs <= f.max_retries
               /\ AllTransient(SubSeq(f.hist, 1, s.reqs - 1))
               /\ f.hist[s.reqs].cls = "OK"
               /\ s.slept = BackoffTerms(s.reqs - 1)

\* C5 witness: success on the third of three attempts.
C5_Witness ==
    \E c \in DOMAIN calls :
        LET s == calls[c]
        IN  /\ s.op = "func" /\ s.max_retries = 3 /\ s.pc = "done"
            /\ s.reqs = 3 /\ s.lastResp.ok /\ s.result = Return("v2")
            /\ s.slept = <<1, 2>>

\* The AI operations of the service (the generic wrapped function apart).
AIOps == Ops \ {"func"}

\* C6: with the default policy every AI operation makes 3 attempts in all:
\* against a provider that fails transiently on every request, one call issues
\* exactly 3 provider requests before the failure is propagated,
\* chat_completion_json included.
C6_ThreeProviderRequests ==
    \A c \in DOMAIN calls :
        LET s == calls[c]
        IN  (s.op \in AIOps /\ s.pc = "done" /\ s.allTransient) =>
               s.reqs = 3 /\ s.result.kind = "raise"

\* ------------------------------------------------- JSON, by its grammar
\* The text of a chat response as chat_completion hands it on.
CompletionText(resp) == IF resp.payload.present THEN resp.payload.text ELSE <<>>

RECURSIVE JsonPairs(_), JsonItems(_)
\* The well-formed JSON texts of at most len tokens, each with the value it
\* denotes:  value ::= 1 | [] | {} | [ value {, value} ]
JsonPairs(len) ==
    IF len <= 0 THEN {}
    ELSE {p \in {[text |-> <<"1">>, val |-> JNum(1)],
                 [text |-> <<"[", "]">>, val |-> JList(<<>>)],
                 [text |-> <<"{", "}">>, val |-> JDict]} : Len(p.text) <= len}
         \cup {[text |-> <<"[">> \o it.text \o <<"]">>, val |-> JList(it.vals)] :
                 it \in JsonItems(len - 2)}

\* The comma-separated non-empty lists of values, of at most len tokens.
JsonItems(len) ==
    IF len <= 0 THEN {}
    ELSE LET more == {[text |-> it.text \o <<",">> \o p.text,
                       vals |-> Append(it.vals, p.val)] :
                         it \in JsonItems(len - 2), p \in JsonPairs(len - 2)}
         IN  {[text |-> p.text, vals |-> <<p.val>>] : p \in JsonPairs(len)}
             \cup {m \in more : Len(m.text) <= len}

WellFormed == JsonPairs(MaxText)

IsWellFormedJson(text) == \E p \in WellFormed : p.text = text

\* C7: a parse error is never retried: when a provider request succeeds with a
\* text that is not valid JSON, chat_completion_json raises the parse failure
\* on this first occurrence, with no further provider request and no backoff
\* sleep for it (one request and no sleep at all when it is the first request).
C7_ParseErrorNotRetried ==
    \A c \in DOMAIN calls :
        LET s == calls[c]
            f == s.frames[1]
        IN  (s.op = "chat_completion_json" /\ s.lastResp.ok
             /\ ~IsWellFormedJson(CompletionText(s.lastResp))) =>
               /\ s.pc = "done"
               /\ s.result.kind = "raise" /\ s.result.exc.cls = "ValueError"
               /\ s.reqs = s.lastResp.req
               /\ f.hist[Len(f.hist)] = s.result.exc
               /\ \A i \in 1..(Len(f.hist) - 1) : f.hist[i].cls # "ValueError"
               /\ Len(s.slept) = (s.reqs - 1) + (Len(f.hist) - 1)
               /\ s.reqs = 1 => s.slept = <<>>

\* C7 witness: the first request returns a text that is not JSON.
C7_Witness ==
    \E c \in DOMAIN calls :
        LET s == calls[c]
        IN  /\ s.op = "chat_completion_json" /\ s.pc = "done"
            /\ s.lastResp.ok /\ s.lastResp.payload = [present |-> TRUE, text |-> <<"{", "1">>]
            /\ s.reqs = 1 /\ s.slept = <<>>
            /\ s.result.exc.cls = "ValueError"

Carries(e, text) == \E i \in 1..Len(e.msg) : e.msg[i].k = "text" /\ e.msg[i].t = text

C10_HealthyOnlyIfNonEmpty ==
    (probe.pc = "done" /\ probe.result.kind = "return") =>
        LET rec == probe.result.val
            chatNonEmpty == probe.chat.payload.present /\ probe.chat.payload.text # <<>>
            embedNonEmpty == probe.embed.payload[1].embedding # <<>>
        IN  /\ rec.status = IF chatNonEmpty /\ embedNonEmpty THEN "healthy" ELSE "degraded"
            /\ (~chatNonEmpty /\ embedNonEmpty) =>
                  rec.chat_completion = "failed" /\ rec.embeddings = "ok"

\* C10 amended: the probe reports "healthy" only if both sub-checks succeed,
\* the chat content is present (not None; an empty string counts as present)
\* and the embedding is non-empty, and "degraded" otherwise; with an absent
\* chat content and a non-empty embedding the record is degraded,
\* chat_completion "failed", embeddings "ok".
C10_HealthyOnlyIfPresent ==
    (probe.pc = "done" /\ probe.result.kind = "return") =>
        LET rec == probe.result.val
            chatPresent == probe.chat.payload.present
            embedNonEmpty == probe.embed.payload[1].embedding # <<>>
        IN  /\ probe.chat.ok /\ probe.embed.ok
            /\ rec.status = IF chatPresent /\ embedNonEmpty THEN "healthy" ELSE "degraded"
            /\ rec.chat_completion = IF chatPresent THEN "ok" ELSE "failed"
            /\ rec.embeddings = IF embedNonEmpty THEN "ok" ELSE "failed"
            /\ probe.http = [code |-> 200, body |-> rec]

\* C10 witness: absent chat content, non-empty embedding: degraded, failed, ok.
C10_Witness ==
    /\ probe.pc = "done" /\ probe.chat.ok /\ ~probe.chat.payload.present
    /\ probe.embed.ok /\ probe.embed.payload[1].embedding = <<1>>
    /\ probe.result.val.status = "degraded"
    /\ probe.result.val.chat_completion = "failed"
    /\ probe.result.val.embeddings = "ok"

\* C11: the probe fails fast: one run issues at most one chat request and at
\* most one embedding request and sleeps no backoff; if either request raises,
\* the exception leaves validate_azure_connection, no status record is
\* produced and ai_health_check answers 503.
C11_ProbeFailsFast ==
    /\ probe.chatReqs <= 1 /\ probe.embedReqs <= 1 /\ probe.slept = <<>>
    /\ (probe.chat.req = 1 /\ ~probe.chat.ok) =>
          /\ probe.pc = "done" /\ probe.result = Raise(probe.chat.exc)
          /\ probe.embedReqs = 0
          /\ probe.http = [code |-> 503, body |-> NoRecord]
    /\ (probe.embed.req = 1 /\ ~probe.embed.ok) =>
          /\ probe.pc = "done" /\ probe.result = Raise(probe.embed.exc)
          /\ probe.http = [code |-> 503, body |-> NoRecord]
    /\ probe.result.kind = "return" => probe.chat.ok /\ probe.embed.ok

\* C11 witness: the chat request answered, the embedding request times out.
C11_Witness ==
    /\ probe.pc = "done" /\ probe.chat.ok /\ probe.chatReqs = 1 /\ probe.embedReqs = 1
    /\ probe.embed.exc.cls = "APITimeoutError"
    /\ probe.result = Raise(probe.embed.exc)
    /\ probe.http.code = 503

\* C12: a missing required configuration value is fatal at startup: the
\* process never serves requests while the provider configuration has failed
\* to build, and nothing (configuration, clients, deployment mapping) is built
\* from a partial configuration.
C12_NoServingWithoutConfig ==
    /\ app.state = "serving" => app.provider # "failed"
    /\ ~ConfigBuilds(app.env) => ~app.config /\ ~app.mapping /\ app.clients = 0

\* The number of transient failures among the outcomes hist.
TransientCount(hist) == Cardinality({i \in 1..Len(hist) : TransientFailure(hist[i])})

\* C13: under any interleaving of two concurrent calls, each call's attempts
\* and backoff delays follow from its own outcomes only: it invokes the
\* operation at most its own max_retries times, has issued one request per
\* outcome it has seen (plus the one in flight), and has slept exactly the
\* backoff terms of its own transient failures, whatever the other call did.
C13_CallsAreIndependent ==
    \A c \in DOMAIN calls :
        LET s == calls[c]
        IN  (s.pc # "start" /\ Single(s)) =>
               LET f == s.frames[1]
               IN  /\ Len(f.hist) <= f.max_retries
                   /\ s.reqs = Len(f.hist) + (IF s.pc = "await" THEN 1 ELSE 0)
                   /\ s.slept = BackoffTerms(TransientCount(f.hist))
                   /\ f.backoff = INITIAL_BACKOFF
                   /\ f.attempt <= Len(f.hist)

\* C13 witness: both calls asleep at once, the first after its second
\* transient failure and the second after its first.
C13_Witness ==
    /\ DOMAIN calls = {1, 2}
    /\ calls[1].pc = "sleep" /\ calls[1].slept = <<1, 2>>
    /\ calls[2].pc = "sleep" /\ calls[2].slept = <<1>>

\* C14: generate_embeddings_batch returns one vector per input text, the i-th
\* being the embedding of the i-th item of the provider's response (which holds
\* one item per input text); a call that fails propagates the failure and
\* returns no list, and no list exists before the call is over.
C14_BatchKeepsOrder ==
    \A c \in DOMAIN calls :
        LET s == calls[c]
        IN  s.op = "generate_embeddings_batch" =>
              /\ s.pc # "done" => s.result = Pending
              /\ (s.pc = "done" /\ s.result.kind = "return") =>
                    /\ s.lastResp.ok /\ Len(s.lastResp.payload) = s.n
                    /\ Len(s.result.val) = s.n
                    /\ \A i \in 1..s.n : s.result.val[i] = s.lastResp.payload[i].embedding
              /\ (s.pc = "done" /\ s.result.kind = "raise") =>
                    /\ s.result.val = NoVal
                    /\ ~s.lastResp.ok

\* C14 witness: a batch of two texts answered, on the second attempt, with
\* two different embeddings, returned in the response's order.
C14_Witness ==
    \E c \in DOMAIN calls :
        LET s == calls[c]
        IN  /\ s.op = "generate_embeddings_batch" /\ s.n = 2 /\ s.pc = "done"
            /\ s.reqs = 2
            /\ s.lastResp.payload[1].embedding = <<1>>
            /\ s.lastResp.payload[2].embedding = <<2>>
            /\ s.result = Return(<<<<1>>, <<2>>>>)

\* The number of leading transient failures of a stub's script.
RECURSIVE LeadingTransient(_)
LeadingTransient(script) ==
    IF script = <<>> \/ script[1].ok \/ ~TransientFailure(script[1].exc) THEN 0
    ELSE 1 + LeadingTransient(Tail(script))

\* What a completion request has to end with against the stub script: the
\* first answer that is not a transient failure, or the last failure when all
\* are transient.
StubOutcome(script) ==
    LET k == LeadingTransient(script)
    IN  IF k = Len(script) THEN Raise(script[k].exc)
        ELSE IF script[k + 1].ok THEN Return(script[k + 1].payload.text)
        ELSE Raise(script[k + 1].exc)

\* C15: the same completion request repeated against a deterministic stub
\* ends the same way each time (same returned text or same propagated failure,
\* after the same requests and waits), and that outcome is the one the stub's
\* answers alone determine.
C15_RepeatedRequestSameResult ==
    \A c \in DOMAIN calls, d \in DOMAIN calls :
        (calls[c].pc = "done" /\ calls[d].pc = "done" /\ calls[c].op = calls[d].op
         /\ calls[c].op = "chat_completion" /\ stub # <<>>) =>
           /\ calls[c].result = calls[d].result
           /\ calls[c].reqs = calls[d].reqs
           /\ calls[c].slept = calls[d].slept
           /\ calls[c].result = StubOutcome(stub)

\* C15 witness: both calls are over, each having returned the text the stub
\* gave on the second request, after a timeout on the first.
C15_Witness ==
    /\ DOMAIN calls = {1, 2} /\ stub # <<>>
    /\ stub[1].exc.cls = "APITimeoutError"
    /\ calls[1].pc = "done" /\ calls[2].pc = "done"
    /\ calls[1].reqs = 2 /\ calls[2].reqs = 2
    /\ calls[1].result = Return(<<"1">>) /\ calls[2].result = Return(<<"1">>)

\* C16: the backoff delays of one with_retry call are the geometric sequence
\* initial_backoff * multiplier^i (1, 2, 4 with the defaults), whatever the
\* transient classification of each failure, and exactly the waits between
\* attempts occur: a call that is over has slept once less than it invoked.
C16_GeometricWaitsBetweenAttempts ==
    \A c \in DOMAIN calls :
        LET s == calls[c]
        IN  Single(s) =>
              /\ \A i \in 1..Len(s.slept) :
                    s.slept[i] = INITIAL_BACKOFF * Pow(BACKOFF_MULTIPLIER, i - 1)
              /\ (s.pc = "done" /\ s.reqs >= 1) => Len(s.slept) = s.reqs - 1

\* An outcome of the wrapped function that is a failure with_retry is not to
\* recover: anything raised that is not a transient provider failure.
NotRecoverable(e) == e.cls # "OK" /\ ~TransientFailure(e)

\* C17: a failure that is not transient (a permanent 4xx, a parse error, an
\* unclassified exception) ends the call where it first occurs: it is the last
\* outcome its wrapper sees, the call is over and raises it, and (one wrapper
\* deep) no request and no sleep follows it, whatever max_retries leaves.
C17_OnlyTransientRecovered ==
    \A c \in DOMAIN calls :
        LET s == calls[c]
        IN  \A k \in 1..Len(s.frames) :
              LET h == s.frames[k].hist
              IN  \A i \in 1..Len(h) :
                    NotRecoverable(h[i]) =>
                       /\ k = 1 /\ i = Len(h)
                       /\ s.pc = "done" /\ s.result = Raise(h[i])
                       /\ Single(s) => s.reqs = i /\ Len(s.slept) = i - 1

\* C17 witness: with max_retries = 3, a timeout and then an unclassified
\* exception on the second attempt, raised with one attempt left.
C17_Witness ==
    \E c \in DOMAIN calls :
        LET s == calls[c]
        IN  /\ s.op = "func" /\ s.max_retries = 3 /\ s.pc = "done"
            /\ Len(s.frames[1].hist) = 2
            /\ s.frames[1].hist[1].cls = "APITimeoutError"
            /\ s.frames[1].hist[2].cls = "Exception"
            /\ s.result = Raise(s.frames[1].hist[2])
            /\ s.reqs = 2 /\ s.slept = <<1>>

\* C18: every failure that leaves with_retry (after exhaustion, or at once on
\* its first occurrence) comes after a log event of that call: a call that is
\* over with a failure has logged something.
C18_FailureLoggedBeforePropagation ==
    \A c \in DOMAIN calls :
        LET s == calls[c]
        IN  (s.pc = "done" /\ s.result.kind = "raise") => s.log # <<>>

\* C19: a call cancelled while suspended (awaiting the provider or asleep in
\* a backoff) ends there with the cancellation: it is not retried, and the call
\* has issued no request and begun no sleep since.
C19_CancelEndsTheCall ==
    \A c \in DOMAIN calls :
        LET s == calls[c]
        IN  s.cancel.at # "none" =>
              /\ s.pc = "done"
              /\ s.result = Raise(CancelledError)
              /\ s.reqs = s.cancel.reqs
              /\ Len(s.slept) = s.cancel.slept

\* C19 witness: a chat_completion_json call cancelled in its second backoff
\* sleep, after two requests, over with the cancellation.
C19_Witness ==
    \E c \in DOMAIN calls :
        LET s == calls[c]
        IN  /\ s.op = "chat_completion_json" /\ s.cancel.at = "sleep"
            /\ s.cancel.reqs = 2 /\ s.cancel.slept = 2
            /\ s.pc = "done" /\ s.result = Raise(CancelledError)

\* C20: no operation blocks the event loop: whatever the probe or another
\* call is waiting for, a call suspended on its provider response or its
\* backoff sleep can take its next step, and so can the waiting probe.
C20_NoOperationBlocks ==
    /\ \A c \in DOMAIN calls :
          calls[c].pc \in {"await", "sleep"} => ENABLED (Respond(c) \/ Wake(c))
    /\ probe.pc \in {"chat", "embed"} => ENABLED (ProbeChat \/ ProbeEmbed)

\* The invocations of its wrapped function a wrapper frame has made: those
\* that ended, and the one under way.
Invocations(s, k) ==
    Len(s.frames[k].hist) + (IF k < Len(s.frames) \/ s.pc = "await" THEN 1 ELSE 0)

\* C21: provided every provider request is answered and every sleep ends, a
\* call through with_retry is eventually over (it returned or raised), and no
\* wrapper ever invokes its wrapped function more than max_retries times.
C21_EveryCallTerminates ==
    /\ <>(\A c \in DOMAIN calls : calls[c].pc = "done" /\ calls[c].result # Pending)
    /\ [](\A c \in DOMAIN calls :
            \A k \in 1..Len(calls[c].frames) :
                Invocations(calls[c], k) <= calls[c].frames[k].max_retries)

\* C21 witness: a call with max_retries = 3 over after three transient
\* failures and the three sleeps that followed them.
C21_Witness ==
    \E c \in DOMAIN calls :
        LET s == calls[c]
        IN  /\ s.op = "func" /\ s.max_retries = 3 /\ s.pc = "done"
            /\ s.allTransient /\ s.result.kind = "raise"
            /\ s.reqs = 3 /\ s.slept = <<1, 2, 4>>

\* C22: whatever max_retries is, 0 included, a call that is over has invoked
\* the wrapped function at least once, and a failure it propagates is one that
\* an invocation of the wrapped function raised.
C22_FailureComesFromOperation ==
    \A c \in DOMAIN calls :
        LET s == calls[c]
        IN  s.pc = "done" =>
              LET h == s.frames[1].hist
              IN  /\ Len(h) >= 1
                  /\ Single(s) => s.reqs >= 1
                  /\ s.result.kind = "raise" => \E i \in 1..Len(h) : h[i] = s.result.exc

====
